---- MODULE Spec2Model ----
(***************************************************************************)
(* Model of src/main.py: a Blender script that builds a looping metaball   *)
(* animation.  The host (bpy) is modelled by the objects, materials and    *)
(* scene settings the script reads and writes.                             *)
(*                                                                         *)
(* Units.  Angles held in rotation_euler are integer multiples of pi/360   *)
(* rad (so math.radians(d) is 2*d and a full turn is 720).  Scales,        *)
(* alpha and the random factors are integer hundredths (100 is 1.0).       *)
(***************************************************************************)
EXTENDS Integers, Sequences, FiniteSets, TLC

VARIABLES
    pc,         \* position of the script inside main()
    runNo,      \* how many times the script has been started in this session
    seedIn,     \* the literal assigned to `seed` in scene_setup
    seeded,     \* value the random stream was seeded with in this run (None before)
    rng,        \* state of the shared random stream (module `random`)
    draws,      \* values drawn from the stream in this run, in order
    clipboard,  \* bpy.context.window_manager.clipboard
    objs,       \* bpy.data.objects, in creation order
    active,     \* bpy.context.active_object (index into objs, None when absent)
    selected,   \* indices of the selected objects
    materials,  \* bpy.data.materials, in creation order
    scene,      \* bpy.context.scene settings
    world,      \* the world data block
    context,    \* the dict returned by scene_setup
    i,          \* loop counter of create_centerpiece
    path,       \* local `path` of create_centerpiece
    raisedAt,   \* step at which an exception left main(), "" when none
    prev,       \* what the previous completed run left behind
    calls,      \* number of animate_rotation calls made (SpecRot)
    last,       \* arguments and pre-state of the latest animate_rotation call
    hexIn,      \* argument of hex_color_to_rgb (SpecHex)
    hexOut      \* outcome of the latest conversion (SpecHex)

vars == <<pc, runNo, seedIn, seeded, rng, draws, clipboard, objs, active,
          selected, materials, scene, world, context, i, path, raisedAt,
          prev, calls, last, hexIn, hexOut>>

None == 0

\* ------------------------------------------------------------------------
\* Bounds of the model
\* ------------------------------------------------------------------------
MaxRuns == 2
MaxCalls == 2
MaxFrame == 2
MaxHexLen == 7

\* literals the `seed` assignment of scene_setup may carry, wall-clock readings
Seeds == {0, 1, 2}
Clocks == {5, 6}

\* ------------------------------------------------------------------------
\* class Axis
\* ------------------------------------------------------------------------
Axis_X == 0
Axis_Y == 1
Axis_Z == 2
Axes == {Axis_X, Axis_Y, Axis_Z}

\* ------------------------------------------------------------------------
\* module random: the generator is a deterministic function of its seed.
\* It is abstracted as a 16-bit linear congruential generator.
\* ------------------------------------------------------------------------
RngMod == 65536
RngMul == 25173
RngInc == 13849

RandomSeed(v) == v % RngMod
NextRng(s) == (s * RngMul + RngInc) % RngMod

\* random.randint(a, b), random.uniform(a, b) on the integer grid, random.choice
Randint(s, a, b) == a + (NextRng(s) * (b - a + 1)) \div RngMod
Uniform(s, a, b) == a + (NextRng(s) * (b - a + 1)) \div RngMod
ChoiceIndex(s, n) == 1 + (NextRng(s) * n) \div RngMod
Choice(s, seq) == seq[ChoiceIndex(s, Len(seq))]

\* ------------------------------------------------------------------------
\* math.radians
\* ------------------------------------------------------------------------
Radians(deg) == 2 * deg

\* ------------------------------------------------------------------------
\* Colour conversion
\* ------------------------------------------------------------------------
LowerHex == <<"0","1","2","3","4","5","6","7","8","9","a","b","c","d","e","f">>
UpperHex == <<"0","1","2","3","4","5","6","7","8","9","A","B","C","D","E","F">>
Whitespace == {" "}
Signs == {"+", "-"}

IsHexDigit(c) == \E k \in 1..16 : c = LowerHex[k] \/ c = UpperHex[k]
HexVal(c) == (CHOOSE k \in 1..16 : c = LowerHex[k] \/ c = UpperHex[k]) - 1

RECURSIVE LStrip(_)
LStrip(s) == IF s # <<>> /\ Head(s) \in Whitespace THEN LStrip(Tail(s)) ELSE s
RECURSIVE RStrip(_)
RStrip(s) ==
    IF s # <<>> /\ s[Len(s)] \in Whitespace
    THEN RStrip(SubSeq(s, 1, Len(s) - 1)) ELSE s

\* digits of an int() literal: hex digits, single underscores only between digits
RECURSIVE DigitsOk(_, _)
DigitsOk(s, prevDigit) ==
    IF s = <<>> THEN prevDigit
    ELSE IF Head(s) = "_" THEN prevDigit /\ DigitsOk(Tail(s), FALSE)
    ELSE IsHexDigit(Head(s)) /\ DigitsOk(Tail(s), TRUE)

RECURSIVE DigitsVal(_, _)
DigitsVal(s, acc) ==
    IF s = <<>> THEN acc
    ELSE IF Head(s) = "_" THEN DigitsVal(Tail(s), acc)
    ELSE DigitsVal(Tail(s), 16 * acc + HexVal(Head(s)))

\* int(text, 16): surrounding whitespace is stripped, one sign and a 0x prefix
\* are accepted, then at least one digit.  ok = FALSE stands for ValueError.
\* The parse runs in stages, each handing its result to the next.
ParseDigits(body, neg) ==
    IF body # <<>> /\ Head(body) # "_" /\ DigitsOk(body, FALSE)
    THEN [ok |-> TRUE, val |-> (IF neg THEN 0 - 1 ELSE 1) * DigitsVal(body, 0)]
    ELSE [ok |-> FALSE, val |-> 0]
\* after a prefix one underscore may precede the first digit
ParsePrefixed(d, neg) ==
    ParseDigits(IF d # <<>> /\ Head(d) = "_" THEN Tail(d) ELSE d, neg)
ParseUnsigned(u, neg) ==
    IF Len(u) >= 2 /\ u[1] = "0" /\ u[2] \in {"x", "X"}
    THEN ParsePrefixed(SubSeq(u, 3, Len(u)), neg)
    ELSE ParseDigits(u, neg)
ParseSigned(t) ==
    IF t # <<>> /\ Head(t) \in Signs
    THEN ParseUnsigned(Tail(t), Head(t) = "-")
    ELSE ParseUnsigned(t, FALSE)
IntBase16(text) == ParseSigned(RStrip(LStrip(text)))

\* convert_srgb_to_linear_rgb applied to n/255.  The two branches of the
\* transfer function are kept symbolic: "linear" is (n/255)/12.92 and
\* "gamma" is (((n/255)+0.055)/1.055)^2.4.  n/255 <= 0.04045 iff n <= 10.
convert_srgb_to_linear_rgb(n) ==
    IF n * 100000 <= 4045 * 255
    THEN [branch |-> "linear", num |-> n]
    ELSE [branch |-> "gamma", num |-> n]

\* hex_color_to_rgb: error is "" when a colour is returned
RgbOfComponents(red, green, blue) ==
    IF ~red.ok \/ ~green.ok \/ ~blue.ok THEN [error |-> "ValueError", rgb |-> <<>>]
    ELSE [error |-> "",
          rgb |-> <<convert_srgb_to_linear_rgb(red.val),
                    convert_srgb_to_linear_rgb(green.val),
                    convert_srgb_to_linear_rgb(blue.val)>>]
RgbOfStripped(h) ==
    IF Len(h) # 6 THEN [error |-> "AssertionError", rgb |-> <<>>]
    ELSE RgbOfComponents(IntBase16(SubSeq(h, 1, 2)), IntBase16(SubSeq(h, 3, 4)),
                         IntBase16(SubSeq(h, 5, 6)))
hex_color_to_rgb(hex_color) ==
    IF hex_color # <<>> /\ Head(hex_color) = "#"
    THEN RgbOfStripped(Tail(hex_color))
    ELSE RgbOfStripped(hex_color)

\* hex_color_to_rgba with the default alpha 1.0
WithAlpha(c, alpha) ==
    IF c.error # "" THEN c ELSE [error |-> "", rgb |-> Append(c.rgb, alpha)]
hex_color_to_rgba(hex_color) == WithAlpha(hex_color_to_rgb(hex_color), 100)

Palette == <<
    <<"#","F","C","7","6","6","A">>,
    <<"#","5","B","8","4","B","1">>,
    <<"#","5","F","4","B","8","B">>,
    <<"#","E","6","9","A","8","D">>,
    <<"#","4","2","E","A","D","D">>,
    <<"#","C","D","B","5","9","9">>,
    <<"#","0","0","A","4","C","C">>,
    <<"#","F","9","5","7","0","0">>,
    <<"#","0","0","2","0","3","F">>,
    <<"#","A","D","E","F","D","1">>,
    <<"#","6","0","6","0","6","0">>,
    <<"#","D","6","E","D","1","7">>,
    <<"#","E","D","2","B","3","3">>,
    <<"#","D","8","5","A","7","F">> >>

\* get_random_color: the colour drawn when the stream is in state s
get_random_color(s) == hex_color_to_rgba(Choice(s, Palette)).rgb

\* ------------------------------------------------------------------------
\* Host objects (bpy.types.Object with the data block it owns)
\* ------------------------------------------------------------------------
NoCurve == [keys |-> {}, extrapolation |-> "CONSTANT"]
NoPathAnim == [on |-> FALSE, frame_start |-> 0, length |-> 0]

\* the host's defaults: path_duration of a new curve, and the frame_start,
\* length and value range of bpy.ops.constraint.followpath_path_animate
DefaultPathDuration == 100
FollowPathFrameStart == 1
FollowPathLength == 100
FollowPathRange == 100

DefaultData ==
    [path_duration |-> DefaultPathDuration, path_anim |-> NoPathAnim,
     materials |-> <<>>, render_resolution |-> 0, render_resolution_u |-> 0,
     bevel_depth |-> 0, radius |-> 100, lens |-> 0, passepartout_alpha |-> 0,
     energy |-> 0, color |-> <<>>, shape |-> ""]

NewObject(kind, base, os) ==
    [kind |-> kind,
     name |-> [base |-> base,
               no |-> Cardinality({k \in 1..Len(os) : os[k].name.base = base})],
     location |-> <<0, 0, 0>>,
     rotation_euler |-> [a \in Axes |-> 0],
     scale |-> [a \in Axes |-> 100],
     baked |-> [a \in Axes |-> 0],
     fcurves |-> [a \in Axes |-> NoCurve],
     constraints |-> <<>>,
     data |-> DefaultData]

\* active_object()
active_object(act) == act

\* obj.keyframe_insert("rotation_euler", index=axis, frame=frame): the key of
\* that frame is replaced, a new curve starts with constant extrapolation
keyframe_insert(o, axis, frame) ==
    [o EXCEPT !.fcurves[axis].keys =
        {k \in @ : k[1] # frame} \cup {<<frame, o.rotation_euler[axis]>>}]

\* obj.animation_data is None until the first keyframe is inserted
HasAnimationData(o) == \E a \in Axes : o.fcurves[a].keys # {}

\* set_fcurve_extrapolation_to_linear: every curve of the ACTIVE object
set_fcurve_extrapolation_to_linear(os, act) ==
    IF act = None \/ ~HasAnimationData(os[act])
    THEN [error |-> "AttributeError", objs |-> os]
    ELSE [error |-> "",
          objs |-> [os EXCEPT ![act].fcurves =
                       [a \in Axes |-> IF @[a].keys # {}
                                       THEN [@[a] EXCEPT !.extrapolation = "LINEAR"]
                                       ELSE @[a]]]]

\* angle_offset of animate_rotation
angle_offset(angle, clockwise) == IF clockwise THEN 0 - angle ELSE angle

\* animate_rotation(angle, axis_index, last_frame, obj, clockwise, linear, start_frame)
\* on the objects os with active object act.  No argument is validated.
animate_rotation(os, act, angle, axis_index, last_frame, obj, clockwise, linear, start_frame) ==
    LET target == IF obj = None THEN active_object(act) ELSE obj
        o1 == keyframe_insert(os[target], axis_index, start_frame)
        o2 == [o1 EXCEPT !.rotation_euler[axis_index] =
                   Radians(angle_offset(angle, clockwise)) + @]
        o3 == keyframe_insert(o2, axis_index, last_frame)
        keyed == [os EXCEPT ![target] = o3]
    IN  IF target = None THEN [error |-> "AttributeError", objs |-> os]
        ELSE IF linear THEN set_fcurve_extrapolation_to_linear(keyed, act)
        ELSE [error |-> "", objs |-> keyed]

\* animate_360_rotation
animate_360_rotation(os, act, axis_index, last_frame, obj, clockwise, linear, start_frame) ==
    animate_rotation(os, act, 360, axis_index, last_frame, obj, clockwise, linear, start_frame)

\* apply_rotation: bpy.ops.object.transform_apply(rotation=True) moves the
\* rotation of every selected object into its data and resets rotation_euler
apply_rotation(os, sel) ==
    [k \in 1..Len(os) |->
        IF k \in sel
        THEN [os[k] EXCEPT !.baked = os[k].rotation_euler,
                           !.rotation_euler = [a \in Axes |-> 0]]
        ELSE os[k]]

\* apply_random_rotation: three draws, x then y then z, on the active object
apply_random_rotation(os, act, sel, s) ==
    LET s1 == NextRng(s)
        s2 == NextRng(s1)
        rx == Uniform(s, 0, 359)
        ry == Uniform(s1, 0, 359)
        rz == Uniform(s2, 0, 359)
        turned == [os EXCEPT ![act].rotation_euler =
                      (Axis_X :> Radians(rx)) @@ (Axis_Y :> Radians(ry)) @@ (Axis_Z :> Radians(rz))]
    IN  [objs |-> apply_rotation(turned, sel), rng |-> NextRng(s2),
         drawn |-> <<rx, ry, rz>>]

\* create_reflective_material / create_emission_material
create_reflective_material(color, name, roughness, specular) ==
    [name |-> <<"material.reflective.", name>>, kind |-> "reflective",
     color |-> color, roughness |-> roughness, specular |-> specular, energy |-> 0]
create_emission_material(color, name, energy) ==
    [name |-> <<"material.emission.", name>>, kind |-> "emission",
     color |-> color, roughness |-> 0, specular |-> 0, energy |-> energy]

\* bpy.data.metaballs: the metaball data blocks, in creation order
Metaballs(os) == {k \in 1..Len(os) : os[k].kind = "META"}
Curves(os) == {k \in 1..Len(os) : os[k].kind = "CURVE"}
LastMetaball(os) == CHOOSE k \in Metaballs(os) : \A m \in Metaballs(os) : k >= m
FirstMetaball(os) == CHOOSE k \in Metaballs(os) : \A m \in Metaballs(os) : k <= m

\* ------------------------------------------------------------------------
\* The run of main()
\* ------------------------------------------------------------------------
fps == 30
loop_seconds == 12
frame_count_sum == fps + loop_seconds
frame_count == fps * loop_seconds
metaball_count == 10

\* the host's startup file: settings of a new scene and its three objects
InitScene ==
    [frame_start |-> 1, frame_end |-> 250, frame_current |-> 1, fps |-> 24,
     engine |-> "BLENDER_EEVEE", device |-> "CPU", samples |-> 0, look |-> "None",
     resolution_x |-> 1920, resolution_y |-> 1080, camera |-> None,
     file_format |-> "PNG", ffmpeg_format |-> "", filepath |-> "/tmp/",
     use_nodes |-> FALSE, nodes |-> {}, links |-> {},
     glare |-> [size |-> 0, glare_type |-> "", quality |-> "", threshold |-> 0]]
InitWorld == [name |-> "World", background |-> <<5, 5, 5, 100>>]
StartupObjects ==
    LET cam == NewObject("CAMERA", "Camera", <<>>)
        cube == NewObject("MESH", "Cube", <<>>)
        light == NewObject("LIGHT", "Light", <<>>)
    IN  <<cam, cube, light>>

NoPrev ==
    [status |-> "none", seeded |-> None, draws |-> <<>>, objs |-> <<>>,
     materials |-> <<>>, scene |-> InitScene, world |-> InitWorld]
NoCall ==
    [op |-> "none", error |-> "", target |-> None, active |-> None, angle |-> 0,
     axis |-> 0, start_frame |-> 0, last_frame |-> 0, clockwise |-> FALSE,
     linear |-> FALSE, pre |-> <<>>]
NoHex == [op |-> "none", error |-> "", rgb |-> <<>>]

rotVars == <<calls, last>>
hexVars == <<hexIn, hexOut>>
runVars == <<runNo, seedIn, prev>>

Steps == {"seed", "clean_scene", "set_scene_props", "setup_camera", "path_add",
          "path_animate", "path_random_rotation", "path_bias", "ball_add",
          "ball_constraint", "ball_animate", "material", "background", "light",
          "glare"}

Init ==
    /\ pc = "seed"
    /\ runNo = 1
    /\ seedIn \in Seeds
    /\ seeded = None
    /\ rng \in {11, 12}
    /\ draws = <<>>
    /\ clipboard = ""
    /\ objs = StartupObjects
    /\ active = None
    /\ selected = {}
    /\ materials = <<>>
    /\ scene = InitScene
    /\ world = InitWorld
    /\ context = [frame_count |-> 0]
    /\ i = 0
    /\ path = None
    /\ raisedAt = ""
    /\ prev = NoPrev
    /\ calls = 0
    /\ last = NoCall
    /\ hexIn = <<>>
    /\ hexOut = NoHex

SeedValueAlwaysClock(seed, clock) == clock
SeedValueAlwaysLiteral(seed, clock) == seed
\* the value the stream is seeded with: the literal when it is truthy,
\* otherwise the clock reading of time_seed()
SeedValue(seed, clock) == IF seed # 0 THEN seed ELSE clock

\* scene_setup, first part: output settings and seeding (time_seed copies
\* the seed to the clipboard)
SceneSetupSeed ==
    /\ pc = "seed"
    /\ \E clock \in Clocks :
        /\ seeded' = SeedValue(seedIn, clock)
        /\ rng' = RandomSeed(SeedValue(seedIn, clock))
        /\ clipboard' = IF seedIn # 0 THEN clipboard ELSE <<"str", clock>>
    /\ scene' = [scene EXCEPT !.file_format = "FFMPEG", !.ffmpeg_format = "MPEG4",
                              !.filepath = "/tmp/project_ProjecT/loop_0.mp4"]
    /\ pc' = "clean_scene"
    /\ UNCHANGED <<draws, objs, active, selected, materials, world, context, i,
                   path, raisedAt, runVars, rotVars, hexVars>>

\* clean_scene: every object is deleted, the world is replaced and the
\* orphaned data blocks (materials, curves, metaballs, actions) are purged
clean_scene ==
    /\ pc = "clean_scene"
    /\ objs' = <<>>
    /\ active' = None
    /\ selected' = {}
    /\ materials' = <<>>
    /\ world' = [name |-> "World", background |-> <<5, 5, 5, 100>>]
    /\ pc' = "set_scene_props"
    /\ UNCHANGED <<seeded, rng, draws, clipboard, scene, context, i, path,
                   raisedAt, runVars, rotVars, hexVars>>

\* set_scene_props(fps, loop_seconds) with set_1080px_square_render_res
set_scene_props ==
    /\ pc = "set_scene_props"
    /\ scene' = [scene EXCEPT !.frame_end = fps * loop_seconds, !.fps = fps,
                              !.frame_current = 1, !.frame_start = 1,
                              !.engine = "CYCLES", !.device = "GPU",
                              !.samples = 1024,
                              !.look = "AgX - Very High Contrast",
                              !.resolution_x = 1080, !.resolution_y = 1080]
    /\ world' = [world EXCEPT !.background = <<0, 0, 0, 100>>]
    /\ pc' = "setup_camera"
    /\ UNCHANGED <<seeded, rng, draws, clipboard, objs, active, selected,
                   materials, context, i, path, raisedAt, runVars, rotVars, hexVars>>

\* setup_camera((0, 0, 7), (0, 0, 0)) with track_empty, add_ctrl_empty and
\* make_active; then scene_setup returns the context
setup_camera ==
    /\ pc = "setup_camera"
    /\ LET cam == [NewObject("CAMERA", "Camera", objs) EXCEPT
                       !.location = <<0, 0, 7>>, !.data.lens = 70,
                       !.data.passepartout_alpha = 90]
           camId == Len(objs) + 1
           empty == NewObject("EMPTY", "empty.tracker-target.Camera", Append(objs, cam))
           emptyId == camId + 1
           tracked == [cam EXCEPT !.constraints =
                          Append(@, [type |-> "TRACK_TO", name |-> "Track To",
                                     target |-> emptyId,
                                     use_fixed_location |-> FALSE])]
       IN  /\ objs' = Append(Append(objs, tracked), empty)
           /\ active' = camId
           /\ selected' = {camId}
           /\ scene' = [scene EXCEPT !.camera = camId]
    /\ context' = [frame_count |-> frame_count]
    /\ i' = 0
    /\ pc' = "path_add"
    /\ UNCHANGED <<seeded, rng, draws, clipboard, materials, world, path,
                   raisedAt, runVars, rotVars, hexVars>>

\* an exception raised inside a step leaves main(): nothing catches it
Raise(step) ==
    /\ pc' = "failed"
    /\ raisedAt' = step

\* create_metaball_path, lines 640-643: the circle becomes the active object
PathAdd ==
    /\ pc = "path_add"
    /\ i < metaball_count
    /\ LET circle == [NewObject("CURVE", "BezierCircle", objs) EXCEPT
                          !.data.path_duration = context.frame_count]
       IN  /\ objs' = Append(objs, circle)
           /\ active' = Len(objs) + 1
           /\ selected' = {Len(objs) + 1}
           /\ path' = Len(objs) + 1
    /\ pc' = "path_animate"
    /\ UNCHANGED <<seeded, rng, draws, clipboard, materials, scene, world,
                   context, i, raisedAt, runVars, rotVars, hexVars>>

\* create_metaball_path, line 646: the direction is drawn, then the sweep is keyed
PathAnimate ==
    /\ pc = "path_animate"
    /\ LET cw == Randint(rng, 0, 1)
           res == animate_360_rotation(objs, active, Axis_X, context.frame_count,
                                       path, cw # 0, TRUE, 1)
       IN  /\ rng' = NextRng(rng)
           /\ draws' = Append(draws, cw)
           /\ objs' = res.objs
           /\ IF res.error = ""
              THEN pc' = "path_random_rotation" /\ UNCHANGED raisedAt
              ELSE Raise("path_animate")
    /\ UNCHANGED <<seeded, clipboard, active, selected, materials, scene, world,
                   context, i, path, runVars, rotVars, hexVars>>

\* create_metaball_path, line 648
PathRandomRotation ==
    /\ pc = "path_random_rotation"
    /\ LET res == apply_random_rotation(objs, active, selected, rng)
       IN  /\ objs' = res.objs
           /\ rng' = res.rng
           /\ draws' = draws \o res.drawn
    /\ pc' = "path_bias"
    /\ UNCHANGED <<seeded, clipboard, active, selected, materials, scene, world,
                   context, i, path, raisedAt, runVars, rotVars, hexVars>>

BiasAxisElseZ(b) == IF b # 0 THEN Axis_X ELSE Axis_Z
\* the axis that receives the bias: x when the draw is truthy, else y
BiasAxis(b) == IF b # 0 THEN Axis_X ELSE Axis_Y

\* create_metaball_path, lines 650-655
PathBias ==
    /\ pc = "path_bias"
    /\ LET b == Randint(rng, 0, 1)
           f == Uniform(NextRng(rng), 5, 50)
       IN  /\ objs' = [objs EXCEPT ![path].scale[BiasAxis(b)] = (@ * f) \div 100]
           /\ rng' = NextRng(NextRng(rng))
           /\ draws' = draws \o <<b, f>>
    /\ pc' = "ball_add"
    /\ UNCHANGED <<seeded, clipboard, active, selected, materials, scene, world,
                   context, i, path, raisedAt, runVars, rotVars, hexVars>>

\* create_metaball, lines 667-671
BallAdd ==
    /\ pc = "ball_add"
    /\ LET f == Uniform(rng, 5, 50)
           ball == [NewObject("META", "Mball", objs) EXCEPT
                        !.data.render_resolution = 5,
                        !.scale = [a \in Axes |-> (@[a] * f) \div 100]]
       IN  /\ objs' = Append(objs, ball)
           /\ active' = Len(objs) + 1
           /\ selected' = {Len(objs) + 1}
           /\ rng' = NextRng(rng)
           /\ draws' = Append(draws, f)
    /\ pc' = "ball_constraint"
    /\ UNCHANGED <<seeded, clipboard, materials, scene, world, context, i, path,
                   raisedAt, runVars, rotVars, hexVars>>

\* create_metaball, lines 674-675: the constraint goes to the active object
BallConstraint ==
    /\ pc = "ball_constraint"
    /\ objs' = [objs EXCEPT ![active].constraints =
                   Append(@, [type |-> "FOLLOW_PATH", name |-> "Follow Path",
                              target |-> path, use_fixed_location |-> FALSE])]
    /\ pc' = "ball_animate"
    /\ UNCHANGED <<seeded, rng, draws, clipboard, active, selected, materials,
                   scene, world, context, i, path, raisedAt, runVars, rotVars, hexVars>>

followpath_path_animate_skipped(os, owner) == os
\* bpy.ops.constraint.followpath_path_animate(constraint="Follow Path",
\* owner='OBJECT') with the default frame_start and length: the target curve
\* gets its evaluation-time animation unless it has one; without a target
\* the constraint's own offset is animated
followpath_path_animate(os, owner) ==
    LET cs == {k \in 1..Len(os[owner].constraints) :
                   os[owner].constraints[k].name = "Follow Path"}
        c == CHOOSE k \in cs : TRUE
        tar == os[owner].constraints[c].target
    IN  IF cs = {} THEN os
        ELSE IF tar = None
        THEN [os EXCEPT ![owner].constraints[c].use_fixed_location = TRUE]
        ELSE IF os[tar].data.path_anim.on THEN os
        ELSE [os EXCEPT ![tar].data.path_anim =
                 [on |-> TRUE, frame_start |-> FollowPathFrameStart,
                  length |-> FollowPathLength]]

\* create_metaball, line 676, and the end of one loop iteration
BallAnimate ==
    /\ pc = "ball_animate"
    /\ objs' = followpath_path_animate(objs, active)
    /\ i' = i + 1
    /\ pc' = IF i + 1 < metaball_count THEN "path_add" ELSE "material"
    /\ UNCHANGED <<seeded, rng, draws, clipboard, active, selected, materials,
                   scene, world, context, path, raisedAt, runVars, rotVars, hexVars>>

\* apply_metaball_material: one colour, one material, appended to the data
\* block bpy.data.metaballs[0]
apply_metaball_material ==
    /\ pc = "material"
    /\ LET color == get_random_color(rng)
           material == create_reflective_material(color, "metaball", 10, 50)
           primary_metaball == FirstMetaball(objs)
       IN  /\ materials' = Append(materials, material)
           /\ objs' = [objs EXCEPT ![primary_metaball].data.materials =
                          Append(@, Len(materials) + 1)]
           /\ rng' = NextRng(rng)
           /\ draws' = Append(draws, ChoiceIndex(rng, Len(Palette)))
    /\ pc' = "background"
    /\ UNCHANGED <<seeded, clipboard, active, selected, scene, world, context,
                   i, path, raisedAt, runVars, rotVars, hexVars>>

\* create_background with apply_emission_material(color, energy=30)
create_background ==
    /\ pc = "background"
    /\ LET color == get_random_color(rng)
           material == create_emission_material(color, "", 30)
           ring == [NewObject("CURVE", "BezierCircle", objs) EXCEPT
                        !.data.radius = 150, !.data.render_resolution_u = 64,
                        !.data.bevel_depth = 5,
                        !.data.materials = <<Len(materials) + 1>>]
       IN  /\ materials' = Append(materials, material)
           /\ objs' = Append(objs, ring)
           /\ active' = Len(objs) + 1
           /\ selected' = {Len(objs) + 1}
           /\ rng' = NextRng(rng)
           /\ draws' = Append(draws, ChoiceIndex(rng, Len(Palette)))
    /\ pc' = "light"
    /\ UNCHANGED <<seeded, clipboard, scene, world, context, i, path, raisedAt,
                   runVars, rotVars, hexVars>>

\* add_light
add_light ==
    /\ pc = "light"
    /\ LET color == get_random_color(rng)
           lamp == [NewObject("LIGHT", "Area", objs) EXCEPT
                        !.location = <<0, 0, 2>>, !.data.radius = 100,
                        !.data.energy = 100, !.data.color = SubSeq(color, 1, 3),
                        !.data.shape = "DISK"]
       IN  /\ objs' = Append(objs, lamp)
           /\ active' = Len(objs) + 1
           /\ selected' = {Len(objs) + 1}
           /\ rng' = NextRng(rng)
           /\ draws' = Append(draws, ChoiceIndex(rng, Len(Palette)))
    /\ pc' = "glare"
    /\ UNCHANGED <<seeded, clipboard, materials, scene, world, context, i, path,
                   raisedAt, runVars, rotVars, hexVars>>

\* apply_glare_composite_effect: the glare node of an earlier run is replaced
apply_glare_composite_effect ==
    /\ pc = "glare"
    /\ LET nodes0 == IF scene.use_nodes THEN scene.nodes
                     ELSE {"Render Layers", "Composite"}
           links0 == IF scene.use_nodes THEN scene.links
                     ELSE {<<"Render Layers", "Composite">>}
           kept == {l \in links0 : l[1] # "Glare" /\ l[2] \notin {"Glare", "Composite"}}
       IN  scene' = [scene EXCEPT
                        !.use_nodes = TRUE,
                        !.nodes = nodes0 \cup {"Glare"},
                        !.links = kept \cup {<<"Render Layers", "Glare">>,
                                             <<"Glare", "Composite">>},
                        !.glare = [size |-> 7, glare_type |-> "FOG_GLOW",
                                   quality |-> "HIGH", threshold |-> 20]]
    /\ pc' = "done"
    /\ UNCHANGED <<seeded, rng, draws, clipboard, objs, active, selected,
                   materials, world, context, i, path, raisedAt, runVars,
                   rotVars, hexVars>>

\* a host call of the current step raises (an operator polled in the wrong
\* context, a setting the host version lacks such as the "AgX" look or the
\* cycles device): main() has no handler, so the script stops where it is and
\* what the earlier steps created stays in the host
HostError ==
    /\ pc \in Steps
    /\ Raise(pc)
    /\ UNCHANGED <<seeded, rng, draws, clipboard, objs, active, selected,
                   materials, scene, world, context, i, path, runVars,
                   rotVars, hexVars>>

\* the script is started again in the same session
RunAgain ==
    /\ pc \in {"done", "failed"}
    /\ runNo < MaxRuns
    /\ runNo' = runNo + 1
    /\ prev' = IF pc = "done"
               THEN [status |-> "done", seeded |-> seeded, draws |-> draws,
                     objs |-> objs, materials |-> materials, scene |-> scene,
                     world |-> world]
               ELSE prev
    /\ pc' = "seed"
    /\ seeded' = None
    /\ draws' = <<>>
    /\ raisedAt' = ""
    /\ i' = 0
    /\ path' = None
    /\ context' = [frame_count |-> 0]
    /\ UNCHANGED <<seedIn, rng, clipboard, objs, active, selected, materials,
                   scene, world, rotVars, hexVars>>

Next ==
    \/ SceneSetupSeed
    \/ clean_scene
    \/ set_scene_props
    \/ setup_camera
    \/ PathAdd
    \/ PathAnimate
    \/ PathRandomRotation
    \/ PathBias
    \/ BallAdd
    \/ BallConstraint
    \/ BallAnimate
    \/ apply_metaball_material
    \/ create_background
    \/ add_light
    \/ apply_glare_composite_effect
    \/ HostError
    \/ RunAgain

Spec == Init /\ [][Next]_vars

TypeOK == pc \in Steps \cup {"done", "failed", "rot", "hex"}

\* ------------------------------------------------------------------------
\* Properties of the run of main()
\* ------------------------------------------------------------------------
\* the step is still to be taken, or is the one that raised
Pending(step) == pc = step \/ (pc = "failed" /\ raisedAt = step)
\* create_centerpiece of the current run has returned
CenterpieceDone ==
    \E step \in {"background", "light", "glare", "done"} : Pending(step)

SceneDescription(d, o, m, sc, w) ==
    [draws |-> d, objs |-> o, materials |-> m, scene |-> sc, world |-> w]
ThisScene == SceneDescription(draws, objs, materials, scene, world)
PrevScene == SceneDescription(prev.draws, prev.objs, prev.materials, prev.scene, prev.world)
DrawsPerRun == 7 * metaball_count + 3

\* C1 as stated: with the same seed literal in scene_setup and the same
\* parameters, two completed runs yield the same sequence of draws and the
\* same scene.
C1_SameSeedLiteralSameScene ==
    (pc = "done" /\ prev.status = "done") => ThisScene = PrevScene

\* C1 amended: two runs whose stream was seeded with the same value (the same
\* non-zero seed literal, or the same clock reading when the literal is 0)
\* draw the same value at every position and, once complete, yield the same scene.
C1_SameSeedValueSameScene ==
    (prev.status = "done" /\ (seedIn # 0 \/ seeded = prev.seeded)) =>
        /\ \A k \in 1..Len(draws) : draws[k] = prev.draws[k]
        /\ pc = "done" => ThisScene = PrevScene

C1_Witness ==
    /\ pc = "done" /\ prev.status = "done" /\ seedIn # 0
    /\ Len(draws) = DrawsPerRun
    /\ \E k \in 1..Len(draws) : draws[k] > 1

\* elements and their paths
Elements == Metaballs(objs)
FollowTargets(k) ==
    {objs[k].constraints[c].target :
        c \in {n \in 1..Len(objs[k].constraints) : objs[k].constraints[n].type = "FOLLOW_PATH"}}
BiasedOn(o, a, b) ==
    /\ o.scale[a] >= 5 /\ o.scale[a] <= 50
    /\ o.scale[b] = 100
    /\ o.scale[Axis_Z] = 100

\* C2: once create_centerpiece has returned there are exactly 10 elements,
\* each bound by one follow-path constraint to the curve created just before
\* it in the same iteration, the 10 paths are distinct, and every path has
\* exactly one of scale x, y multiplied by a factor in 0.05..0.5 while the
\* other one and z stay 1.
C2_TenElementsOnBiasedPaths ==
    CenterpieceDone =>
        /\ Cardinality(Elements) = 10
        /\ \A k \in Elements :
            /\ Len(objs[k].constraints) = 1
            /\ FollowTargets(k) = {k - 1}
            /\ objs[k - 1].kind = "CURVE"
            /\ \/ BiasedOn(objs[k - 1], Axis_X, Axis_Y)
               \/ BiasedOn(objs[k - 1], Axis_Y, Axis_X)
        /\ Cardinality(UNION {FollowTargets(k) : k \in Elements}) = 10

C2_Witness ==
    /\ pc = "done"
    /\ Cardinality(Elements) = 10
    /\ \E k \in Elements : BiasedOn(objs[k - 1], Axis_X, Axis_Y)
    /\ \E k \in Elements : BiasedOn(objs[k - 1], Axis_Y, Axis_X)

Reflective == {m \in 1..Len(materials) : materials[m].kind = "reflective"}
CenterpieceColour == hex_color_to_rgba(Palette[draws[7 * metaball_count + 1]]).rgb

\* C3 as stated: one colour, one reflective material, and every one of the
\* 10 elements references that material.
C3_EveryElementReferencesMaterial ==
    CenterpieceDone =>
        /\ Cardinality(Reflective) = 1
        /\ \A k \in Elements : \A m \in Reflective : objs[k].data.materials = <<m>>

\* C3 amended: one colour is drawn after all elements are planned, one
\* reflective material is created from it and is appended to the data of the
\* first element only; the other elements hold no material, and before the
\* draw no element holds one.
C3_MaterialOnFirstElementOnly ==
    /\ CenterpieceDone =>
        /\ Cardinality(Reflective) = 1
        /\ Cardinality(Elements) = metaball_count
        /\ \A m \in Reflective :
            /\ materials[m].color = CenterpieceColour
            /\ \A k \in Elements :
                objs[k].data.materials =
                    IF \A j \in Elements : k <= j THEN <<m>> ELSE <<>>
    /\ (~CenterpieceDone /\ ~Pending("seed") /\ ~Pending("clean_scene")) =>
        /\ Reflective = {}
        /\ \A k \in Elements : objs[k].data.materials = <<>>

C3_Witness ==
    /\ pc = "done"
    /\ Cardinality(Reflective) = 1
    /\ Cardinality({k \in Elements : objs[k].data.materials = <<>>}) = 9

\* what a complete scene holds
HasTrackedCamera ==
    \E k \in 1..Len(objs) :
        /\ objs[k].kind = "CAMERA"
        /\ \E c \in 1..Len(objs[k].constraints) :
            /\ objs[k].constraints[c].type = "TRACK_TO"
            /\ objs[k].constraints[c].target \in 1..Len(objs)
            /\ objs[objs[k].constraints[c].target].kind = "EMPTY"
PathIds == {k \in Curves(objs) : objs[k].data.radius = 100}
HasBackground ==
    \E k \in Curves(objs) : objs[k].data.radius = 150 /\ objs[k].data.materials # <<>>
HasAreaLight ==
    \E k \in 1..Len(objs) : objs[k].kind = "LIGHT" /\ objs[k].data.shape = "DISK"
CompleteScene ==
    /\ HasTrackedCamera
    /\ Cardinality(PathIds) = 10
    /\ Cardinality(Elements) = 10
    /\ Cardinality(Reflective) = 1
    /\ HasBackground
    /\ HasAreaLight
NothingGenerated ==
    \A k \in 1..Len(objs) : \E n \in 1..Len(StartupObjects) : objs[k] = StartupObjects[n]

\* C7 as stated: when the script has ended, by returning or by an uncaught
\* exception, either the complete scene exists or no generated object does.
C7_CompleteOrNothing ==
    pc \in {"done", "failed"} => (CompleteScene \/ NothingGenerated)

\* frames one traversal of the path takes: the evaluation time advances by
\* FollowPathRange every `length` frames and a lap ends at path_duration
TraversalFrames(d) == (d.path_duration * d.path_anim.length) \div FollowPathRange
SweepKeys(o) == o.fcurves[Axis_X].keys

\* C8: every path has path_duration = fps * loop_seconds = 360 and its sweep,
\* once keyed, has exactly the frames 1 and 360, a full turn apart; every
\* element's follow-path animation takes path_duration = 360 frames per lap;
\* when create_centerpiece has returned all paths are keyed and all elements
\* animated.
C8_OneLapPerLoop ==
    /\ fps * loop_seconds = 360
    /\ \A p \in PathIds :
        /\ objs[p].data.path_duration = fps * loop_seconds
        /\ SweepKeys(objs[p]) # {} =>
            /\ {k[1] : k \in SweepKeys(objs[p])} = {1, fps * loop_seconds}
            /\ Cardinality(SweepKeys(objs[p])) = 2
            /\ \E a \in SweepKeys(objs[p]), b \in SweepKeys(objs[p]) :
                /\ a[1] = 1 /\ b[1] = fps * loop_seconds
                /\ b[2] - a[2] \in {Radians(360), 0 - Radians(360)}
        /\ objs[p].data.path_anim.on =>
            /\ TraversalFrames(objs[p].data) = fps * loop_seconds
            /\ objs[p].data.path_anim.frame_start = scene.frame_start
        /\ CenterpieceDone => (SweepKeys(objs[p]) # {} /\ objs[p].data.path_anim.on)
    /\ \A e \in Elements : \A t \in FollowTargets(e) :
        /\ t \in PathIds
        /\ CenterpieceDone => objs[t].data.path_anim.on

C8_Witness ==
    /\ pc = "done"
    /\ Cardinality(PathIds) = 10
    /\ \A p \in PathIds : SweepKeys(objs[p]) # {} /\ objs[p].data.path_anim.on
    /\ \E p \in PathIds : <<360, Radians(360)>> \in SweepKeys(objs[p])
    /\ \E p \in PathIds : <<360, 0 - Radians(360)>> \in SweepKeys(objs[p])

\* state of an element: 1 Planned, 2 PathBound, 3 Animated
ElementTargets(os, k) ==
    {os[k].constraints[c].target :
        c \in {n \in 1..Len(os[k].constraints) :
                  /\ os[k].constraints[n].type = "FOLLOW_PATH"
                  /\ os[k].constraints[n].target # None}}
ElementState(os, k) ==
    IF ElementTargets(os, k) = {} THEN 1
    ELSE IF \E t \in ElementTargets(os, k) : os[t].data.path_anim.on THEN 3
    ELSE 2
PathComplete(o) ==
    /\ o.kind = "CURVE"
    /\ o.data.path_duration = fps * loop_seconds
    /\ Cardinality(SweepKeys(o)) = 2
    /\ \A a \in Axes : o.rotation_euler[a] = 0
    /\ \E k \in SweepKeys(o) : k[2] # 0
    /\ BiasedOn(o, Axis_X, Axis_Y) \/ BiasedOn(o, Axis_Y, Axis_X)
    /\ ~o.data.path_anim.on

C9_Returned ==
    CenterpieceDone =>
        /\ Cardinality(Elements) = metaball_count
        /\ \A k \in Elements : ElementState(objs, k) = 3
C9_Step ==
    \A k \in Metaballs(objs') :
        IF k \in Metaballs(objs)
        THEN /\ ElementState(objs', k) \in {ElementState(objs, k), ElementState(objs, k) + 1}
             /\ objs'[k].scale = objs[k].scale
             /\ ElementState(objs, k) >= 2 => ElementTargets(objs', k) = ElementTargets(objs, k)
        ELSE /\ ElementState(objs', k) = 1
             /\ \A a \in Axes : objs'[k].scale[a] >= 5 /\ objs'[k].scale[a] <= 50
             /\ k > 1 /\ PathComplete(objs'[k - 1])

\* C9: an element appears as Planned only after its path is fully created,
\* then moves one state at a time Planned -> PathBound -> Animated, never
\* back, its scale is never drawn again, and when create_centerpiece has
\* returned all 10 elements are Animated.
C9_PlannedBoundAnimated == [](C9_Returned) /\ [][C9_Step]_vars

C9_Witness ==
    /\ \E k \in Elements : ElementState(objs, k) = 2
    /\ \E k \in Elements : ElementState(objs, k) = 3

\* the stream state n draws after it was in state s
RECURSIVE RngAfter(_, _)
RngAfter(s, n) == IF n = 0 THEN s ELSE RngAfter(NextRng(s), n - 1)

\* the first part of scene_setup, which seeds the stream, has been passed
SeedingPassed == ~Pending("seed")

C11_Seeded ==
    /\ SeedingPassed <=> seeded # None
    /\ draws # <<>> => seeded # None
    /\ seeded # None =>
        /\ seedIn # 0 => seeded = seedIn
        /\ seedIn = 0 => (seeded \in Clocks /\ clipboard = <<"str", seeded>>)
C11_SeedStep ==
    /\ seeded' # seeded => (pc = "seed" \/ pc' = "seed")
    /\ (seeded = None /\ seeded' # None) =>
        /\ pc = "seed" /\ draws = <<>> /\ draws' = <<>>
        /\ rng' = RandomSeed(seeded')
    /\ (seeded # None /\ seeded' # seeded) => (seeded' = None /\ runNo' = runNo + 1)
    /\ (seeded # None /\ seeded' = seeded) =>
        /\ Len(draws') >= Len(draws)
        /\ rng' = RngAfter(rng, Len(draws') - Len(draws))

\* C11: in a run the stream is seeded only by the first part of scene_setup,
\* once, before any draw, and from then on its state only advances by the
\* draws made (it is not seeded again until the script is started anew);
\* the seed is the literal when that is non-zero and a clock reading, copied
\* to the clipboard, when it is 0.
C11_SeededOnceInSceneSetup == [](C11_Seeded) /\ [][C11_SeedStep]_vars

\* a literal 0 gave two complete runs with different seeds and different draws
C11_Witness ==
    /\ seedIn = 0
    /\ pc = "done" /\ prev.status = "done"
    /\ seeded \in Clocks /\ prev.seeded \in Clocks /\ seeded # prev.seeded
    /\ draws # prev.draws
    /\ Len(draws) = DrawsPerRun

\* ------------------------------------------------------------------------
\* animate_rotation on arbitrary arguments
\* ------------------------------------------------------------------------
Theta0s == {0, 90}
Angles == {90}
Frames == 1..MaxFrame
RotObjects == {1, 2}

InitRot ==
    /\ pc = "rot"
    /\ \E t \in Theta0s :
        objs = [k \in RotObjects |->
                   [NewObject("EMPTY", "Empty", <<>>) EXCEPT
                        !.rotation_euler = [a \in Axes |-> t]]]
    /\ active \in RotObjects \cup {None}
    /\ selected = {k \in RotObjects : k = active}
    /\ runNo = 1 /\ seedIn = 0 /\ seeded = None /\ rng = 0 /\ draws = <<>>
    /\ clipboard = "" /\ materials = <<>> /\ scene = InitScene
    /\ world = InitWorld /\ context = [frame_count |-> 0] /\ i = 0
    /\ path = None /\ raisedAt = "" /\ prev = NoPrev
    /\ calls = 0 /\ last = NoCall
    /\ hexIn = <<>> /\ hexOut = NoHex

rotRest == <<runNo, seedIn, seeded, rng, draws, clipboard, materials, scene,
             world, context, i, path, raisedAt, prev, hexVars, pc>>

\* make_active(obj)
make_active ==
    /\ pc = "rot"
    /\ \E obj \in RotObjects :
        /\ active # obj
        /\ selected' = {obj}
        /\ active' = obj
    /\ UNCHANGED <<objs, calls, last, rotRest>>

CallRecord(op, res, angle, axis, last_frame, obj, clockwise, linear, start_frame) ==
    [op |-> op, error |-> res.error,
     target |-> IF obj = None THEN active ELSE obj, active |-> active,
     angle |-> angle, axis |-> axis, start_frame |-> start_frame,
     last_frame |-> last_frame, clockwise |-> clockwise, linear |-> linear,
     pre |-> objs]

\* a call animate_rotation(angle, axis, last_frame, obj, clockwise, linear, start_frame)
CallAnimateRotation ==
    /\ pc = "rot"
    /\ calls < MaxCalls
    /\ \E angle \in Angles, axis \in Axes, last_frame \in Frames,
          obj \in RotObjects \cup {None}, clockwise \in BOOLEAN,
          linear \in BOOLEAN, start_frame \in Frames :
        LET res == animate_rotation(objs, active, angle, axis, last_frame, obj,
                                    clockwise, linear, start_frame)
        IN  /\ objs' = res.objs
            /\ last' = CallRecord("animate_rotation", res, angle, axis, last_frame,
                                  obj, clockwise, linear, start_frame)
    /\ calls' = calls + 1
    /\ UNCHANGED <<active, selected, rotRest>>

\* a call animate_360_rotation(axis, last_frame, obj, clockwise, linear), start_frame 1
CallAnimate360Rotation ==
    /\ pc = "rot"
    /\ calls < MaxCalls
    /\ \E axis \in Axes, last_frame \in Frames, obj \in RotObjects \cup {None},
          clockwise \in BOOLEAN, linear \in BOOLEAN :
        LET res == animate_360_rotation(objs, active, axis, last_frame, obj,
                                        clockwise, linear, 1)
        IN  /\ objs' = res.objs
            /\ last' = CallRecord("animate_360_rotation", res, 360, axis, last_frame,
                                  obj, clockwise, linear, 1)
    /\ calls' = calls + 1
    /\ UNCHANGED <<active, selected, rotRest>>

NextRot ==
    \/ make_active
    \/ CallAnimateRotation
    \/ CallAnimate360Rotation

SpecRot == InitRot /\ [][NextRot]_vars

\* the latest call reached its keyframing (it had an object to work on)
Keyframed == last.op # "none" /\ last.target # None
LastPre == last.pre[last.target]
LastPost == objs[last.target]
LastTheta0 == LastPre.rotation_euler[last.axis]
LastEndValue ==
    IF last.clockwise THEN LastTheta0 - Radians(last.angle)
    ELSE LastTheta0 + Radians(last.angle)
\* keys of the curve after the call that were not there, at other frames, before
Recorded ==
    LastPost.fcurves[last.axis].keys \
        {k \in LastPre.fcurves[last.axis].keys : k[1] \notin {last.start_frame, last.last_frame}}

\* C4 as stated: the call records exactly the two keyframes (startFrame,
\* theta0) and (endFrame, theta0 +/- totalAngle) on the chosen axis, for any
\* theta0, with totalAngle 360 for animate_360_rotation, and none on the
\* other axes.
C4_TwoKeyframes ==
    Keyframed =>
        /\ Cardinality(Recorded) = 2
        /\ Recorded = {<<last.start_frame, LastTheta0>>, <<last.last_frame, LastEndValue>>}
        /\ last.op = "animate_360_rotation" => last.angle = 360
        /\ \A a \in Axes \ {last.axis} : LastPost.fcurves[a].keys = LastPre.fcurves[a].keys

\* C5 as stated: a call with endFrame <= startFrame fails with
\* InvalidFrameRange, records nothing and leaves the rotation unchanged, so
\* every existing curve has at least two keyframes.
C5_InvalidFrameRange ==
    /\ (Keyframed /\ last.last_frame <= last.start_frame) =>
        (last.error = "InvalidFrameRange" /\ objs = last.pre)
    /\ \A k \in 1..Len(objs) : \A a \in Axes :
        objs[k].fcurves[a].keys # {} => Cardinality(objs[k].fcurves[a].keys) >= 2

\* C10 as stated: with linear the curve of the object given to the call
\* becomes linear and no curve of another object changes, whichever object
\* is active; without linear no extrapolation changes.
C10_PolicyOnPassedObject ==
    (Keyframed /\ last.active # None) =>
        /\ last.linear => LastPost.fcurves[last.axis].extrapolation = "LINEAR"
        /\ \A k \in 1..Len(objs) : \A a \in Axes :
            (k # last.target \/ ~last.linear) =>
                objs[k].fcurves[a].extrapolation = last.pre[k].fcurves[a].extrapolation

\* ------------------------------------------------------------------------
\* hex_color_to_rgb on arbitrary strings
\* ------------------------------------------------------------------------
HexChars == {"#", "1", "F", "+", " ", "_"}
HexInputs == UNION {[1..n -> HexChars] : n \in 0..MaxHexLen}

InitHex ==
    /\ pc = "hex"
    /\ hexIn \in HexInputs
    /\ hexOut = NoHex
    /\ objs = <<>> /\ active = None /\ selected = {}
    /\ runNo = 1 /\ seedIn = 0 /\ seeded = None /\ rng = 0 /\ draws = <<>>
    /\ clipboard = "" /\ materials = <<>> /\ scene = InitScene
    /\ world = InitWorld /\ context = [frame_count |-> 0] /\ i = 0
    /\ path = None /\ raisedAt = "" /\ prev = NoPrev
    /\ calls = 0 /\ last = NoCall

hexRest == <<pc, runNo, seedIn, seeded, rng, draws, clipboard, objs, active,
             selected, materials, scene, world, context, i, path, raisedAt,
             prev, rotVars, hexIn>>

HexOutcome(op, res) == [op |-> op, error |-> res.error, rgb |-> res.rgb]

CallHexColorToRgb ==
    /\ pc = "hex"
    /\ hexOut.op = "none"
    /\ hexOut' = HexOutcome("hex_color_to_rgb", hex_color_to_rgb(hexIn))
    /\ UNCHANGED hexRest

CallHexColorToRgba ==
    /\ pc = "hex"
    /\ hexOut.op = "none"
    /\ hexOut' = HexOutcome("hex_color_to_rgba", hex_color_to_rgba(hexIn))
    /\ UNCHANGED hexRest

NextHex ==
    \/ CallHexColorToRgb
    \/ CallHexColorToRgba

SpecHex == InitHex /\ [][NextHex]_vars

Unhashed(s) == IF s # <<>> /\ Head(s) = "#" THEN Tail(s) ELSE s
SixHexDigits(s) ==
    /\ Len(Unhashed(s)) = 6
    /\ \A k \in 1..6 : IsHexDigit(Unhashed(s)[k])
PairValue(s, n) == 16 * HexVal(Unhashed(s)[2 * n - 1]) + HexVal(Unhashed(s)[2 * n])

\* C6 as stated: the string is accepted exactly when, after one leading '#'
\* is stripped, it is six hex digits; anything else is an error; an accepted
\* string gives the three values 0..255 of its digit pairs.
C6_AcceptsExactlySixHexDigits ==
    hexOut.op # "none" =>
        /\ (hexOut.error = "") <=> SixHexDigits(hexIn)
        /\ hexOut.error # "" => hexOut.rgb = <<>>
        /\ hexOut.error = "" =>
            \A n \in 1..3 :
                /\ hexOut.rgb[n].num = PairValue(hexIn, n)
                /\ hexOut.rgb[n].num \in 0..255

====
